---------------------------- MODULE Spec2Model ----------------------------
(***************************************************************************)
(* Model of gpumonitor.py: the tray application's two threads (the main    *)
(* thread, which runs the startup connection attempt and then the tray     *)
(* menu callbacks, and the daemon poll thread running update_tooltip)      *)
(* sharing the module globals ssh_client, connection_retry_count,          *)
(* last_connection_attempt, last_utilization, consecutive_errors and the   *)
(* tray icon's title and image.  Strings are sequences of one-character    *)
(* strings so that substring tests, slicing and the regular expressions    *)
(* are computed, not assumed.                                              *)
(***************************************************************************)
EXTENDS Integers, Sequences, FiniteSets, TLC

VARIABLES
    pc,                       \* per thread: the line the thread is at
    started,                  \* module startup (lines 313-320) has finished
    ssh_client,               \* what the global refers to, and its transport
    inflight,                 \* per thread: the connect() call it is inside
    connection_retry_count,
    sinceAttempt,             \* time.time() - last_connection_attempt
    sinceReal,                \* history: time since a connect was last begun
    retryBefore,              \* history: the count when the poll thread's attempt began
    prompts,                  \* history: number of input() calls so far
    last_utilization,
    consecutive_errors,
    title,                    \* icon.title
    image,                    \* icon.icon
    sleep_time,               \* update_tooltip's local of line 285
    cycle,                    \* update_tooltip's locals in its last cycle
    keyProtected,             \* the configured key needs a passphrase
    adaptive_poll_enabled,
    fnArgs,                   \* arguments of the function under test
    fnResult                  \* its result

vars == <<pc, started, ssh_client, inflight, connection_retry_count,
          sinceAttempt, sinceReal, retryBefore, prompts, last_utilization,
          consecutive_errors, title, image, sleep_time, cycle,
          keyProtected, adaptive_poll_enabled, fnArgs, fnResult>>

-----------------------------------------------------------------------------
(* Bounds of the model.                                                    *)
MaxRetry == 2        \* failed attempts counted before failures are cut off
MaxErrors == 2       \* consecutive error cycles counted
MaxPrompts == 2      \* passphrase prompts counted
MaxWs == 3           \* whitespace characters at each place of a document
MaxInterval == 4     \* largest configured update_interval tried
MaxReading == 120    \* largest integer the remote output carries in the field
MaxDetail == 100     \* longest exception message, in characters
MaxCount == 6        \* failed attempts accumulated before the recovery

(* Program constants.                                                      *)
UPDATE_INTERVAL == 5
HIGH_UTIL_THRESHOLD == 50
ADAPTIVE_POLLING == TRUE
connection_backoff_base == 5
fast_poll_threshold == 10
BackoffCap == 5
TitleLimit == 128

-----------------------------------------------------------------------------
(* String literals of the source.                                          *)
S_Disconnected == <<"D", "i", "s", "c", "o", "n", "n", "e", "c", "t", "e", "d", ":", " ">>
S_Error == <<"E", "r", "r", "o", "r">>
S_BackingOff == <<"B", "a", "c", "k", "i", "n", "g", " ", "o", "f", "f", " ", "f", "o", "r", " ">>
S_HostUnreachable == <<"H", "o", "s", "t", " ", "u", "n", "r", "e", "a", "c", "h", "a", "b", "l", "e", ":", " ">>
S_AuthenticationFailed == <<"A", "u", "t", "h", "e", "n", "t", "i", "c", "a", "t", "i", "o", "n", " ", "f", "a", "i", "l", "e", "d">>
S_AuthFailed == <<"A", "u", "t", "h", " ", "f", "a", "i", "l", "e", "d", ":", " ">>
S_ConnectionError == <<"C", "o", "n", "n", "e", "c", "t", "i", "o", "n", " ", "e", "r", "r", "o", "r", ":", " ">>
S_NoGpuData == <<"N", "o", " ", "G", "P", "U", " ", "d", "a", "t", "a">>
S_GpuDataNotFound == <<"G", "P", "U", " ", "d", "a", "t", "a", " ", "n", "o", "t", " ", "f", "o", "u", "n", "d">>
S_SshError == <<"S", "S", "H", " ", "e", "r", "r", "o", "r", ":", " ">>
S_QueryError == <<"Q", "u", "e", "r", "y", " ", "e", "r", "r", "o", "r", ":", " ">>
S_Gpu == <<"G", "P", "U", ":", " ">>
S_Connecting == <<"G", "P", "U", " ", "M", "o", "n", "i", "t", "o", "r", " ", "-", " ", "C", "o", "n", "n", "e", "c", "t", "i", "n", "g", ".", ".", ".">>
S_GpuMonitor == <<"G", "P", "U", " ", "M", "o", "n", "i", "t", "o", "r", " ", "-", " ">>
S_OpenTag == <<"<", "g", "p", "u", "_", "u", "t", "i", "l", ">">>
S_TagName == <<"g", "p", "u", "_", "u", "t", "i", "l">>
S_CloseTag == <<"<", "/", "g", "p", "u", "_", "u", "t", "i", "l", ">">>
S_UpperTag == <<"<", "G", "P", "U", "_", "U", "T", "I", "L", ">">>
S_MixedTag == <<"<", "G", "p", "u", "_", "U", "t", "i", "l", ">">>
REMOTE_HOST == <<"g", "p", "u", "1">>

(* Messages str(e) can carry: a socket timeout, paramiko's banner error,   *)
(* and the AttributeError of a call on None.                               *)
M_TimedOut == <<"t", "i", "m", "e", "d", " ", "o", "u", "t">>
M_Banner == <<"E", "r", "r", "o", "r", " ", "r", "e", "a", "d", "i", "n", "g", " ", "b", "a", "n", "n", "e", "r">>
M_NoneType == <<"'", "N", "o", "n", "e", "T", "y", "p", "e", "'">>
M_NotActive == <<"n", "o", "t", " ", "a", "c", "t", "i", "v", "e">>
ConnectMsgs == {M_TimedOut}
SshMsgs == {M_Banner}
QueryMsgs == {M_TimedOut}

-----------------------------------------------------------------------------
(* Character and string helpers (Python's str and re semantics).           *)
UpperChars == <<"G", "P", "U", "T", "I", "L">>
LowerChars == <<"g", "p", "u", "t", "i", "l">>

Lower(c) ==
    IF \E k \in 1..Len(UpperChars) : UpperChars[k] = c
    THEN LowerChars[CHOOSE k \in 1..Len(UpperChars) : UpperChars[k] = c]
    ELSE c

DigitChars == <<"0", "1", "2", "3", "4", "5", "6", "7", "8", "9">>
IsDigit(c) == \E k \in 1..10 : DigitChars[k] = c
DigitVal(c) == (CHOOSE k \in 1..10 : DigitChars[k] = c) - 1
IsSpace(c) == c \in {" ", "\t", "\n", "\r"}

\* str(n) for n >= 0
RECURSIVE Digits(_)
Digits(n) ==
    IF n < 10 THEN <<DigitChars[n + 1]>>
    ELSE Append(Digits(n \div 10), DigitChars[(n % 10) + 1])

\* int(s[j..k-1]) for a run of digits
RECURSIVE IntOf(_, _, _)
IntOf(s, j, k) ==
    IF k <= j THEN 0 ELSE IntOf(s, j, k - 1) * 10 + DigitVal(s[k - 1])

\* sub in s
Contains(sub, s) ==
    \E i \in 1..(Len(s) - Len(sub) + 1) :
        \A k \in 1..Len(sub) : s[i + k - 1] = sub[k]

\* s.strip() == ""
IsBlank(s) == \A i \in 1..Len(s) : IsSpace(s[i])

\* pat matches s at position i, ignoring case
MatchAt(pat, s, i) ==
    /\ i + Len(pat) - 1 <= Len(s)
    /\ \A k \in 1..Len(pat) : Lower(s[i + k - 1]) = Lower(pat[k])

Min(S) == CHOOSE x \in S : \A y \in S : x <= y
Max2(a, b) == IF a >= b THEN a ELSE b

\* first position >= j holding no whitespace (Len(s)+1 if none): \s*
SkipSpace(s, j) ==
    Min({k \in j..(Len(s) + 1) : k = Len(s) + 1 \/ ~IsSpace(s[k])})

\* first position >= j holding no digit: \d+ is s[j..k-1]
SkipDigits(s, j) ==
    Min({k \in j..(Len(s) + 1) : k = Len(s) + 1 \/ ~IsDigit(s[k])})

-----------------------------------------------------------------------------
(* get_gpu_utilization, lines 231-246: the two regular expressions.        *)

\* re.search(r'<gpu_util>\s*(\d+)%', output, re.IGNORECASE): the positions
\* where the pattern matches
PrimaryHits(output) ==
    {i \in 1..Len(output) :
        /\ MatchAt(S_OpenTag, output, i)
        /\ LET j == SkipSpace(output, i + Len(S_OpenTag))
               k == SkipDigits(output, j)
           IN  k > j /\ k <= Len(output) /\ output[k] = "%"}

PrimaryValue(output) ==
    LET i == Min(PrimaryHits(output))
        j == SkipSpace(output, i + Len(S_OpenTag))
    IN  IntOf(output, j, SkipDigits(output, j))

\* first '>' at or after position j (Len+1 if none): [^>]*>
NextGt(output, j) ==
    Min({k \in j..(Len(output) + 1) : k = Len(output) + 1 \/ output[k] = ">"})

\* re.search(r'gpu_util[^>]*>(\d+)', output, re.IGNORECASE)
FallbackHits(output) ==
    {i \in 1..Len(output) :
        /\ MatchAt(S_TagName, output, i)
        /\ LET p == NextGt(output, i + Len(S_TagName))
           IN  p < Len(output) /\ IsDigit(output[p + 1])}

FallbackValue(output) ==
    LET i == Min(FallbackHits(output))
        p == NextGt(output, i + Len(S_TagName))
    IN  IntOf(output, p + 1, SkipDigits(output, p + 1))

\* what get_gpu_utilization returns: (text, util_pct), and the path taken
Result(path, text, util) == [path |-> path, text |-> text, util |-> util]

\* lines 228-246 on the decoded stdout
ParseOutput(output) ==
    IF IsBlank(output) THEN Result("NoData", S_NoGpuData, 0)
    ELSE IF PrimaryHits(output) # {}
    THEN Result("Ok", S_Gpu \o Digits(PrimaryValue(output)) \o <<"%">>,
                PrimaryValue(output))
    ELSE IF FallbackHits(output) # {}
    THEN Result("Ok", S_Gpu \o Digits(FallbackValue(output)) \o <<"%">>,
                FallbackValue(output))
    ELSE Result("FieldNotFound", S_GpuDataNotFound, 0)

\* the paths of a query that are failures
FailurePaths ==
    {"BackingOff", "HostUnreachable", "AuthenticationFailed",
     "PassphraseAuthFailed", "ConnectionError", "NoData", "TransportError",
     "QueryError", "FieldNotFound"}

-----------------------------------------------------------------------------
(* update_tooltip, lines 270-282, and on_refresh, lines 295-296.           *)

\* line 270
HasError(util_text, util_pct) ==
    util_pct = 0 /\ (Contains(S_Error, util_text) \/ Contains(S_Disconnected, util_text))

\* line 276
Truncate(util_text) ==
    IF Len(util_text) > TitleLimit THEN SubSeq(util_text, 1, TitleLimit) ELSE util_text

\* line 282 (and 296)
UtilIcon(util_pct) == IF util_pct > HIGH_UTIL_THRESHOLD THEN "red" ELSE "green"

\* lines 279-282
PollIcon(has_error, util_pct) == IF has_error THEN "gray" ELSE UtilIcon(util_pct)

\* the spec's color classes
ColorClass(icon) ==
    CASE icon = "gray" -> "Offline" [] icon = "red" -> "Alert" [] OTHER -> "Normal"

-----------------------------------------------------------------------------
(* get_adaptive_interval, lines 100-123, as a function of the globals it   *)
(* reads and its arguments.                                                *)
Abs(x) == IF x < 0 THEN -x ELSE x

\* the fast interval without its floor of one second
FastIntervalNoFloor(base) == base \div 3

FastInterval(base) == Max2(1, base \div 3)
ErrorInterval(base) == Max2(2, base \div 2)
SlowInterval(base) == base * 2

\* get_adaptive_interval, were the two thresholds inclusive
AdaptiveIntervalInclusive(base, enabled, last, util_pct, has_error) ==
    IF ~enabled THEN base
    ELSE IF has_error THEN ErrorInterval(base)
    ELSE LET util_change == Abs(util_pct - last)
         IN  IF util_change >= fast_poll_threshold THEN FastInterval(base)
             ELSE IF util_change <= 2 THEN SlowInterval(base)
             ELSE base

get_adaptive_interval(base, enabled, last, util_pct, has_error) ==
    IF ~enabled THEN base
    ELSE IF has_error THEN ErrorInterval(base)
    ELSE LET util_change == Abs(util_pct - last)
         IN  IF util_change > fast_poll_threshold THEN FastInterval(base)
             ELSE IF util_change < 2 THEN SlowInterval(base)
             ELSE base

\* line 130: connection_backoff_base ** min(connection_retry_count, 5)
RECURSIVE Pow(_, _)
Pow(b, e) == IF e = 0 THEN 1 ELSE b * Pow(b, e - 1)
\* the backoff window without the cap of line 130
BackoffNoCap(retry_count) == Pow(connection_backoff_base, retry_count)
Min2(a, b) == IF a <= b THEN a ELSE b
Backoff(retry_count) == Pow(connection_backoff_base, Min2(retry_count, BackoffCap))

-----------------------------------------------------------------------------
(* The threads and the shared state.                                       *)
(*                                                                         *)
(* ssh_client is "None", or describes the client object the global refers  *)
(* to: "new" (no transport: just constructed, or closed), "open" (transport*)
(* active, keepalive not yet set), "active" (transport active, keepalive   *)
(* set), "dead" (transport present, not active).  Every access in the      *)
(* source goes through the global, so an object the global no longer       *)
(* refers to is reachable only by a connect() call already running on it:  *)
(* inflight[t] is "cur" while t's connect() runs on the global's object,   *)
(* "orphan" once the global was rebound or cleared under it.               *)
Threads == {"main", "poll"}

\* the raw command outputs the remote side is taken to produce
D20 == S_OpenTag \o Digits(20) \o <<" ", "%">> \o S_CloseTag
D65 == S_OpenTag \o Digits(65) \o <<"%">> \o S_CloseTag
DBlank == <<"\n">>
DNoField == <<"<", "g", "p", "u", "/", ">">>
Outputs == {D20, D65, DBlank, DNoField}
Parsed == [output \in Outputs |-> ParseOutput(output)]

\* time is counted on the grid of the backoff windows: between two windows
\* the gate of line 131 cannot tell two instants apart
Horizon == Backoff(MaxRetry)
Windows == {Backoff(r) : r \in 0..MaxRetry}

NoCycle == [path |-> "none", util |-> 0, has_error |-> FALSE]

pres == <<title, image, last_utilization, consecutive_errors, sleep_time, cycle>>
conn == <<ssh_client, inflight, connection_retry_count>>
clock == <<sinceAttempt, sinceReal, retryBefore>>
cfg == <<keyProtected, adaptive_poll_enabled, fnArgs, fnResult>>

\* the state right after the module's globals are set (lines 64-75, 310),
\* at the call of line 314
MachineInit ==
    /\ pc = [t \in Threads |-> IF t = "main" THEN "gate" ELSE "unborn"]
    /\ started = FALSE
    /\ ssh_client = "None"
    /\ inflight = [t \in Threads |-> "none"]
    /\ connection_retry_count = 0
    /\ sinceAttempt = Horizon
    /\ sinceReal = Horizon
    /\ retryBefore = 0
    /\ prompts = 0
    /\ consecutive_errors = 0
    /\ title = S_Connecting
    /\ image = "gray"
    /\ sleep_time = 0
    /\ cycle = NoCycle

Init ==
    /\ MachineInit
    /\ last_utilization = 0
    /\ keyProtected \in BOOLEAN
    /\ adaptive_poll_enabled = ADAPTIVE_POLLING
    /\ fnArgs = <<>>
    /\ fnResult = <<>>

Running == pc["main"] # "exited"
Connected == ssh_client \in {"open", "active"}
InStartup(t) == t = "main" /\ ~started

\* the value of the global last_utilization that line 115 reads, given the
\* value before the cycle and the cycle's util_pct: line 273 has stored
\* util_pct by then
SchedulerLast(before, util_pct) == util_pct

\* update_tooltip, lines 270-286, on the pair get_gpu_utilization returned
PollFinish(r) ==
    LET has_error == HasError(r.text, r.util) IN
    /\ adaptive_poll_enabled /\ has_error => consecutive_errors < MaxErrors
    /\ last_utilization' = r.util
    /\ title' = Truncate(r.text)
    /\ image' = PollIcon(has_error, r.util)
    /\ sleep_time' = get_adaptive_interval(UPDATE_INTERVAL, adaptive_poll_enabled,
                        SchedulerLast(last_utilization, r.util), r.util, has_error)
    /\ consecutive_errors' =
          IF ~adaptive_poll_enabled THEN consecutive_errors
          ELSE IF has_error THEN consecutive_errors + 1 ELSE 0
    /\ cycle' = [path |-> r.path, util |-> r.util, has_error |-> has_error]
    /\ pc' = [pc EXCEPT !["poll"] = "sleep"]

\* on_refresh, were it to store the utilization as line 273 does
RefreshFinishStoresLast(r) ==
    /\ title' = r.text
    /\ image' = UtilIcon(r.util)
    /\ last_utilization' = r.util
    /\ pc' = [pc EXCEPT !["main"] = "idle"]
    /\ UNCHANGED <<consecutive_errors, sleep_time, cycle>>

\* on_refresh, lines 294-296, on the pair get_gpu_utilization returned
RefreshFinish(r) ==
    /\ title' = r.text
    /\ image' = UtilIcon(r.util)
    /\ pc' = [pc EXCEPT !["main"] = "idle"]
    /\ UNCHANGED <<last_utilization, consecutive_errors, sleep_time, cycle>>

Finish(t, r) == IF t = "poll" THEN PollFinish(r) ELSE RefreshFinish(r)

\* lines 314-320: the startup call's result, then the poll thread starts
StartupDone(r) ==
    /\ title' = IF r.path = "Ok" THEN title ELSE S_GpuMonitor \o r.text
    /\ pc' = [pc EXCEPT !["main"] = "idle", !["poll"] = "sleep"]
    /\ UNCHANGED <<image, last_utilization, consecutive_errors, sleep_time, cycle>>

\* init_ssh_client returned the error string r.text: line 217, or line 315
InitError(t, r) ==
    /\ IF InStartup(t) THEN StartupDone(r)
       ELSE Finish(t, Result(r.path, S_Disconnected \o r.text, 0))
    /\ started' = TRUE

\* init_ssh_client returned None: on to line 219, or line 315
InitOk(t) ==
    /\ IF InStartup(t) THEN StartupDone(Result("Ok", <<>>, 0))
       ELSE pc' = [pc EXCEPT ![t] = "exec"] /\ UNCHANGED pres
    /\ started' = TRUE

-----------------------------------------------------------------------------
(* The steps of get_gpu_utilization and init_ssh_client, run by thread t.  *)

\* every connect() running on the global's object now runs on an object
\* the global no longer refers to
Orphaned(f) == [u \in Threads |-> IF f[u] = "cur" THEN "orphan" ELSE f[u]]

\* an exception no handler catches leaves get_gpu_utilization: it ends the
\* poll thread, or aborts the menu callback
Uncaught(t) ==
    /\ pc' = [pc EXCEPT ![t] = IF t = "poll" THEN "crashed" ELSE "idle"]
    /\ UNCHANGED pres

\* line 214, first operand: ssh_client is None
Health1(t) ==
    /\ pc' = [pc EXCEPT ![t] = IF ssh_client = "None" THEN "gate" ELSE "h2"]
    /\ UNCHANGED <<started, conn, clock, prompts, pres, cfg>>

\* the tray calls on_refresh on the main thread (line 300), which calls
\* get_gpu_utilization (line 294)
Refresh ==
    /\ Running /\ started /\ pc["main"] = "idle"
    /\ Health1("main")

\* the thread starts (line 320), or time.sleep returns (line 286), and the
\* loop calls get_gpu_utilization (line 269)
Wake ==
    /\ Running /\ pc["poll"] = "sleep"
    /\ Health1("poll")

\* line 214, second and third operands: ssh_client.get_transport() is None
\* or not ssh_client.get_transport().is_active(); the global is read again,
\* and a thread that cleared it since the first operand makes this raise
\* AttributeError outside every try
Health2(t) ==
    /\ Running /\ pc[t] = "h2"
    /\ IF ssh_client = "None" THEN Uncaught(t)
       ELSE /\ pc' = [pc EXCEPT ![t] = IF Connected THEN "exec" ELSE "gate"]
            /\ UNCHANGED pres
    /\ UNCHANGED <<started, conn, clock, prompts, cfg>>

\* line 132
BackingOffText(retry_count) == S_BackingOff \o Digits(Backoff(retry_count)) \o <<".", "0", "s">>

\* line 131: the call is turned away
GateCloses(elapsed, retry_count) == elapsed < Backoff(retry_count)

\* lines 136-137: nothing to do for a live client
AlreadyConnected == Connected

\* lines 141-145: a new client replaces the global, and connect() is called
Create(t) ==
    /\ ssh_client' = "new"
    /\ inflight' = [Orphaned(inflight) EXCEPT ![t] = "cur"]
    /\ pc' = [pc EXCEPT ![t] = "connecting"]
    /\ UNCHANGED <<started, connection_retry_count, pres>>

\* lines 129-145, were the stamp of line 134 taken before the test of line 131
GateStampsFirst(t) ==
    /\ Running /\ pc[t] = "gate"
    /\ sinceAttempt' = 0
    /\ IF GateCloses(sinceAttempt, connection_retry_count)
       THEN /\ InitError(t, Result("BackingOff", BackingOffText(connection_retry_count), 0))
            /\ UNCHANGED <<conn, sinceReal, retryBefore>>
       ELSE IF AlreadyConnected
            THEN InitOk(t) /\ UNCHANGED <<conn, sinceReal, retryBefore>>
            ELSE /\ Create(t)
                 /\ sinceReal' = 0
                 /\ retryBefore' = IF t = "poll" THEN connection_retry_count
                                   ELSE retryBefore
    /\ UNCHANGED <<prompts, cfg>>

\* lines 129-145
Gate(t) ==
    /\ Running /\ pc[t] = "gate"
    /\ IF GateCloses(sinceAttempt, connection_retry_count)
       THEN /\ InitError(t, Result("BackingOff", BackingOffText(connection_retry_count), 0))
            /\ UNCHANGED <<conn, clock>>
       ELSE /\ sinceAttempt' = 0
            /\ IF AlreadyConnected
               THEN InitOk(t) /\ UNCHANGED <<conn, sinceReal, retryBefore>>
               ELSE /\ Create(t)
                    /\ sinceReal' = 0
                    /\ retryBefore' = IF t = "poll" THEN connection_retry_count
                                      ELSE retryBefore
    /\ UNCHANGED <<prompts, cfg>>

\* connect() returns: the client t called it on has a live transport
Established(t, next) ==
    /\ ssh_client' = IF inflight[t] = "cur" THEN "open" ELSE ssh_client
    /\ inflight' = [inflight EXCEPT ![t] = "none"]
    /\ pc' = [pc EXCEPT ![t] = next]
    /\ UNCHANGED <<started, connection_retry_count, clock, prompts, pres, cfg>>

\* the except clauses of init_ssh_client (lines 178-184, 186-208): close and
\* clear the global, count the failure, return the error string
Fail(t, path, text) ==
    /\ connection_retry_count < MaxRetry
    /\ ssh_client' = "None"
    /\ inflight' = [Orphaned(inflight) EXCEPT ![t] = "none"]
    /\ connection_retry_count' = connection_retry_count + 1
    /\ InitError(t, Result(path, text, 0))
    /\ UNCHANGED <<clock, cfg>>

\* the first connect() (line 145) returns or raises
ConnectReturns(t) ==
    /\ Running /\ pc[t] = "connecting"
    /\ \/ ~keyProtected /\ Established(t, "keepalive")
       \/ /\ keyProtected
          /\ pc' = [pc EXCEPT ![t] = "prompt"]
          /\ inflight' = [inflight EXCEPT ![t] = "none"]
          /\ UNCHANGED <<started, ssh_client, connection_retry_count,
                         clock, prompts, pres, cfg>>
       \/ Fail(t, "HostUnreachable", S_HostUnreachable \o REMOTE_HOST) /\ UNCHANGED prompts
       \/ ~keyProtected /\ Fail(t, "AuthenticationFailed", S_AuthenticationFailed)
                        /\ UNCHANGED prompts
       \/ \E m \in ConnectMsgs :
             Fail(t, "ConnectionError", S_ConnectionError \o m) /\ UNCHANGED prompts

\* lines 155-159 (next = "keepalive") and 174-177 (next = "keepalive2")
Keepalive(t) ==
    /\ Running /\ pc[t] \in {"keepalive", "keepalive2"}
    /\ IF ssh_client \in {"None", "new"}
       THEN IF pc[t] = "keepalive"
            THEN Fail(t, "ConnectionError", S_ConnectionError \o M_NoneType)
            ELSE Fail(t, "PassphraseAuthFailed", S_AuthFailed \o M_NoneType)
       ELSE /\ ssh_client' = IF Connected THEN "active" ELSE ssh_client
            /\ connection_retry_count' = 0
            /\ InitOk(t)
            /\ UNCHANGED <<inflight, clock, cfg>>
    /\ UNCHANGED prompts

\* lines 163-165: input(), then connect() with the passphrase is called
Prompt(t) ==
    /\ Running /\ pc[t] = "prompt"
    /\ prompts < MaxPrompts
    /\ prompts' = prompts + 1
    /\ IF ssh_client = "None"
       THEN Fail(t, "PassphraseAuthFailed", S_AuthFailed \o M_NoneType)
       ELSE /\ inflight' = [inflight EXCEPT ![t] = "cur"]
            /\ pc' = [pc EXCEPT ![t] = "connecting2"]
            /\ UNCHANGED <<started, ssh_client, connection_retry_count,
                           clock, pres, cfg>>

\* the second connect() (line 165) returns or raises
Connect2Returns(t) ==
    /\ Running /\ pc[t] = "connecting2"
    /\ \/ Established(t, "keepalive2")
       \/ \E m \in ConnectMsgs :
             Fail(t, "PassphraseAuthFailed", S_AuthFailed \o m) /\ UNCHANGED prompts

\* the except clauses of get_gpu_utilization, were they to keep the handle
QueryFailKeepsHandle(t, path, text) ==
    /\ Finish(t, Result(path, text, 0))
    /\ UNCHANGED conn

\* the except clauses of get_gpu_utilization (lines 252-264)
QueryFail(t, path, text) ==
    /\ ssh_client' = "None"
    /\ inflight' = Orphaned(inflight)
    /\ Finish(t, Result(path, text, 0))
    /\ UNCHANGED connection_retry_count

\* lines 219-264: exec_command, the reads, the parse
Exec(t) ==
    /\ Running /\ pc[t] = "exec"
    /\ \/ ssh_client \in {"None", "new"}
          /\ QueryFail(t, "QueryError", S_QueryError \o M_NoneType)
       \/ ssh_client = "dead"
          /\ QueryFail(t, "TransportError", S_SshError \o M_NotActive)
       \/ Connected /\ \E output \in Outputs :
             Finish(t, Parsed[output]) /\ UNCHANGED conn
       \/ Connected /\ \E m \in SshMsgs :
             QueryFail(t, "TransportError", S_SshError \o m)
       \/ Connected /\ \E m \in QueryMsgs :
             QueryFail(t, "QueryError", S_QueryError \o m)
    /\ UNCHANGED <<started, clock, prompts, cfg>>

\* the remote side or the network drops the connection
Drop ==
    /\ Running /\ Connected
    /\ ssh_client' = "dead"
    /\ UNCHANGED <<pc, started, inflight, connection_retry_count,
                   clock, prompts, pres, cfg>>

\* time passes, up to the next backoff window
Tick ==
    /\ Running /\ sinceAttempt < Horizon
    /\ LET next == Min({w \in Windows : w > sinceAttempt}) IN
       /\ sinceAttempt' = next
       /\ sinceReal' = Min2(sinceReal + (next - sinceAttempt), Horizon)
    /\ UNCHANGED retryBefore
    /\ UNCHANGED <<pc, started, conn, prompts, pres, cfg>>

\* on_quit (lines 288-291), then the finally clause (lines 327-329)
Quit ==
    /\ Running /\ started /\ pc["main"] = "idle"
    /\ ssh_client' = IF ssh_client = "None" THEN "None" ELSE "new"
    /\ pc' = [pc EXCEPT !["main"] = "exited"]
    /\ UNCHANGED <<started, inflight, connection_retry_count, clock,
                   prompts, pres, cfg>>

Next ==
    \/ Refresh
    \/ Wake
    \/ \E t \in Threads : Health2(t)
    \/ \E t \in Threads : Gate(t)
    \/ \E t \in Threads : ConnectReturns(t)
    \/ \E t \in Threads : Keepalive(t)
    \/ \E t \in Threads : Prompt(t)
    \/ \E t \in Threads : Connect2Returns(t)
    \/ \E t \in Threads : Exec(t)
    \/ Drop
    \/ Tick
    \/ Quit

Spec == Init /\ [][Next]_vars

-----------------------------------------------------------------------------
(* The output parser on its own: every well-formed document, parsed by     *)
(* lines 228-246 and published by lines 270-286.                           *)

RECURSIVE Rep(_, _)
Rep(c, n) == IF n = 0 THEN <<>> ELSE <<c>> \o Rep(c, n - 1)

OpenTags == {S_OpenTag, S_UpperTag, S_MixedTag}
WsChars == {" ", "\n"}

\* <gpu_util> lead u gap % trail </gpu_util>
WellFormed(a) ==
    a.tag \o Rep(a.ws, a.lead) \o Digits(a.u) \o Rep(a.ws, a.gap) \o <<"%">>
          \o Rep(a.ws, a.trail) \o S_CloseTag

ParseArgs ==
    [tag : OpenTags, ws : WsChars, lead : 0..MaxWs, u : 0..100,
     gap : 0..MaxWs, trail : 0..MaxWs]

ParseInit ==
    /\ MachineInit
    /\ last_utilization = 0
    /\ keyProtected = FALSE
    /\ adaptive_poll_enabled = ADAPTIVE_POLLING
    /\ fnArgs \in ParseArgs
    /\ fnResult = <<>>

ParseStep ==
    /\ fnResult = <<>>
    /\ fnResult' = <<ParseOutput(WellFormed(fnArgs))>>
    /\ PollFinish(ParseOutput(WellFormed(fnArgs)))
    /\ UNCHANGED <<started, conn, clock, prompts, keyProtected,
                   adaptive_poll_enabled, fnArgs>>

SpecParse == ParseInit /\ [][ParseStep]_vars

-----------------------------------------------------------------------------
(* The scheduler on its own: get_adaptive_interval on every pair of        *)
(* utilizations, for every base interval up to MaxInterval.                *)

SchedArgs ==
    [base : 1..MaxInterval, util_pct : 0..100, has_error : BOOLEAN]

SchedInit ==
    /\ MachineInit
    /\ keyProtected = FALSE
    /\ fnArgs \in SchedArgs
    /\ adaptive_poll_enabled \in BOOLEAN
    /\ last_utilization \in 0..100
    /\ fnResult = <<>>

\* one call of get_adaptive_interval(util_pct, has_error)
SchedStep ==
    /\ fnResult = <<>>
    /\ fnResult' = <<get_adaptive_interval(fnArgs.base, adaptive_poll_enabled,
                        last_utilization, fnArgs.util_pct, fnArgs.has_error)>>
    /\ consecutive_errors' =
          IF ~adaptive_poll_enabled THEN consecutive_errors
          ELSE IF fnArgs.has_error THEN consecutive_errors + 1 ELSE 0
    /\ UNCHANGED <<pc, started, conn, clock, prompts, title, image,
                   last_utilization, sleep_time, cycle, keyProtected,
                   adaptive_poll_enabled, fnArgs>>

SpecSched == SchedInit /\ [][SchedStep]_vars

-----------------------------------------------------------------------------
(* The three places that publish to the tray, on their own: the startup    *)
(* call (lines 314-316), a poll cycle (lines 269-285) and on_refresh       *)
(* (lines 294-296), each on every result its callee can return.            *)

\* str(e) of an exception, n characters long
Detail(n) == Rep("x", n)
Details == {Detail(n) : n \in 0..MaxDetail}

\* documents whose field carries any integer, up to MaxReading
RemoteArgs ==
    [tag : OpenTags, ws : WsChars, lead : 0..1, u : 0..MaxReading,
     gap : 0..1, trail : {0}]

\* what init_ssh_client returns when it fails (lines 132, 184, 192, 200, 208)
InitErrors ==
    {Result("BackingOff", BackingOffText(r), 0) : r \in 0..MaxRetry}
    \cup {Result("HostUnreachable", S_HostUnreachable \o REMOTE_HOST, 0),
          Result("AuthenticationFailed", S_AuthenticationFailed, 0)}
    \cup {Result("ConnectionError", S_ConnectionError \o m, 0) : m \in ConnectMsgs \cup Details}
    \cup {Result("PassphraseAuthFailed", S_AuthFailed \o m, 0) : m \in ConnectMsgs \cup Details}

\* what get_gpu_utilization returns (lines 217, 229, 237, 243, 246, 257, 264)
QueryResults ==
    {Result(r.path, S_Disconnected \o r.text, 0) : r \in InitErrors}
    \cup {ParseOutput(WellFormed(a)) : a \in RemoteArgs}
    \cup {Parsed[output] : output \in Outputs}
    \cup {Result("TransportError", S_SshError \o m, 0) : m \in SshMsgs \cup Details}
    \cup {Result("QueryError", S_QueryError \o m, 0) : m \in QueryMsgs \cup Details}

PublishArgs ==
    [site : {"startup"}, r : InitErrors \cup {Result("Ok", <<>>, 0)}]
    \cup [site : {"poll", "refresh"}, r : QueryResults]

PublishInit ==
    /\ MachineInit
    /\ last_utilization = 0
    /\ keyProtected = FALSE
    /\ adaptive_poll_enabled = ADAPTIVE_POLLING
    /\ fnArgs \in PublishArgs
    /\ fnResult = <<>>

\* lines 315-316
PublishStartup ==
    /\ fnResult = <<>> /\ fnArgs.site = "startup"
    /\ fnResult' = <<fnArgs.r>>
    /\ StartupDone(fnArgs.r)
    /\ started' = TRUE
    /\ UNCHANGED <<conn, clock, prompts, keyProtected, adaptive_poll_enabled, fnArgs>>

\* lines 270-285
PublishPoll ==
    /\ fnResult = <<>> /\ fnArgs.site = "poll"
    /\ fnResult' = <<fnArgs.r>>
    /\ PollFinish(fnArgs.r)
    /\ UNCHANGED <<started, conn, clock, prompts, keyProtected,
                   adaptive_poll_enabled, fnArgs>>

\* lines 295-296
PublishRefresh ==
    /\ fnResult = <<>> /\ fnArgs.site = "refresh"
    /\ fnResult' = <<fnArgs.r>>
    /\ RefreshFinish(fnArgs.r)
    /\ UNCHANGED <<started, conn, clock, prompts, keyProtected,
                   adaptive_poll_enabled, fnArgs>>

PublishNext == PublishStartup \/ PublishPoll \/ PublishRefresh

SpecPublish == PublishInit /\ [][PublishNext]_vars

-----------------------------------------------------------------------------
(* Recovery: the poll loop from the moment every connect() and every       *)
(* command succeeds, starting after any number of failed attempts, with    *)
(* the loop scheduled fairly and time advancing.                           *)

LiveHorizon == Backoff(MaxCount)
LiveWindows == {Backoff(r) : r \in 0..MaxCount}

\* the loop sleeps after a cycle whose attempt has just failed for the r-th
\* time in a row (lines 186-192, 217, 270-286) ...
AfterFailures(r) ==
    /\ ssh_client = "None"
    /\ connection_retry_count = r
    /\ retryBefore = r - 1
    /\ sinceAttempt = 0 /\ sinceReal = 0
    /\ cycle = [path |-> "HostUnreachable", util |-> 0, has_error |-> TRUE]
    /\ title = S_Disconnected \o S_HostUnreachable \o REMOTE_HOST
    /\ image = "gray"
    /\ last_utilization = 0
    /\ consecutive_errors \in 1..MaxErrors
    /\ sleep_time = ErrorInterval(UPDATE_INTERVAL)

\* ... or after a good cycle on a connection that has dropped since
AfterDrop ==
    /\ ssh_client = "dead"
    /\ connection_retry_count = 0
    /\ retryBefore = 0
    /\ sinceAttempt = LiveHorizon /\ sinceReal = LiveHorizon
    /\ cycle = [path |-> "Ok", util |-> Parsed[D20].util, has_error |-> FALSE]
    /\ title = Parsed[D20].text
    /\ image = "green"
    /\ last_utilization = Parsed[D20].util
    /\ consecutive_errors = 0
    /\ sleep_time = SlowInterval(UPDATE_INTERVAL)

LiveInit ==
    /\ pc = [t \in Threads |-> IF t = "main" THEN "idle" ELSE "sleep"]
    /\ started = TRUE
    /\ inflight = [t \in Threads |-> "none"]
    /\ prompts = 0
    /\ keyProtected \in BOOLEAN
    /\ adaptive_poll_enabled = ADAPTIVE_POLLING
    /\ fnArgs = <<>>
    /\ fnResult = <<>>
    /\ \/ \E r \in 1..MaxCount : AfterFailures(r)
       \/ AfterDrop

LiveHealth == Health2("poll")
LiveGate == Gate("poll")
\* connect() succeeds, or asks for the passphrase of the key
LiveConnect == ConnectReturns("poll") /\ pc'["poll"] \in {"keepalive", "prompt"}
LiveKeepalive == Keepalive("poll")
LivePrompt == Prompt("poll")
LiveConnect2 == Connect2Returns("poll") /\ pc'["poll"] = "keepalive2"
\* the command succeeds and its output carries the field
LiveExec == Exec("poll") /\ cycle'.path = "Ok"

\* time passes, up to the next backoff window
LiveTick ==
    /\ sinceAttempt < LiveHorizon
    /\ LET next == Min({w \in LiveWindows : w > sinceAttempt}) IN
       /\ sinceAttempt' = next
       /\ sinceReal' = Min2(sinceReal + (next - sinceAttempt), LiveHorizon)
    /\ UNCHANGED retryBefore
    /\ UNCHANGED <<pc, started, conn, prompts, pres, cfg>>

LivePoll ==
    \/ Wake
    \/ LiveHealth
    \/ LiveGate
    \/ LiveConnect
    \/ LiveKeepalive
    \/ LivePrompt
    \/ LiveConnect2
    \/ LiveExec

LiveNext == LivePoll \/ LiveTick

\* the poll thread keeps running (line 268) and the clock keeps advancing
SpecLive == LiveInit /\ [][LiveNext]_vars /\ WF_vars(LivePoll) /\ WF_vars(LiveTick)

-----------------------------------------------------------------------------
(* The claims.                                                             *)

\* the poll thread ends a cycle in this step: lines 270-286 have run
PollCycleEnds == pc["poll"] \notin {"sleep", "unborn"} /\ pc'["poll"] = "sleep"

\* thread t is inside a connection attempt: past the gate, from the new
\* client of line 141 to the return of init_ssh_client
AttemptPcs == {"connecting", "keepalive", "prompt", "connecting2", "keepalive2"}
InAttempt(t) == pc[t] \in AttemptPcs

\* thread t takes the step of lines 129-137
GateStep(t) == pc[t] = "gate" /\ pc'[t] # "gate"

\* C1: with adaptive polling on, when two consecutive successful cycles of
\* the poll loop report utilizations more than 10 apart, the delay slept
\* after the second is max(1, baseInterval / 3).
C1_FastPollAfterJump ==
    [][(/\ PollCycleEnds
        /\ adaptive_poll_enabled
        /\ cycle.path = "Ok" /\ cycle'.path = "Ok"
        /\ Abs(cycle'.util - cycle.util) > fast_poll_threshold)
       => sleep_time' = Max2(1, UPDATE_INTERVAL \div 3)]_vars

\* C2: a poll cycle whose query ended on any failure path is classified as
\* an error, publishes the Offline color and calls the scheduler with
\* hadError true.
C2_FailureIsOffline ==
    [][(PollCycleEnds /\ cycle'.path \in FailurePaths)
       => (cycle'.has_error /\ ColorClass(image') = "Offline")]_vars

\* C3: at no time are two connection attempts in flight at once, under
\* every interleaving of the poll loop and a manual Refresh.
C3_AttemptsSerialized == ~(InAttempt("main") /\ InAttempt("poll"))

\* C4: a call of ensureConnected made while disconnected returns BackingOff
\* and starts no connect when less than backoffBase^min(r,5) seconds have
\* passed since the most recent real connection attempt, and makes a real
\* attempt once that window has elapsed.
C4_BackoffGate ==
    [][\A t \in Threads :
          (GateStep(t) /\ ~Connected)
          => IF sinceReal < Backoff(connection_retry_count)
             THEN pc'[t] \in {"sleep", "idle"} /\ UNCHANGED conn
             ELSE pc'[t] = "connecting"]_vars

\* C5: while the handle exists and its transport is active, every call of
\* ensureConnected returns success, creates no second handle and does not
\* set keepalive again.
C5_NoOpWhileConnected ==
    [][\A t \in Threads :
          (GateStep(t) /\ Connected)
          => (pc'[t] = "exec" /\ UNCHANGED conn)]_vars

\* C6: when a real connection attempt of the poll loop fails with
\* HostUnreachable, the published text tells of the unreachable host, the
\* color is Offline, retryCount is one more than before the attempt, the
\* handle is closed and cleared, and an ensureConnected call inside the
\* backoff window is turned away with BackingOff.
C6_HostUnreachableCycle ==
    [][/\ (/\ PollCycleEnds
           /\ pc["poll"] = "connecting"
           /\ cycle'.path = "HostUnreachable")
          => /\ Contains(S_HostUnreachable, title')
             /\ ColorClass(image') = "Offline"
             /\ connection_retry_count' = retryBefore + 1
             /\ ssh_client' = "None"
       /\ \A t \in Threads :
             (GateStep(t) /\ sinceReal < Backoff(connection_retry_count))
             => (pc'[t] # "connecting" /\ UNCHANGED conn)]_vars

\* C7: the poll loop never dies from a polling failure: no fault escapes
\* ensureConnected or the query, under every interleaving with Refresh.
C7_PollLoopNeverDies == pc["poll"] # "crashed"

\* C8: the passphrase prompt is issued at most once per process.
C8_PromptAtMostOnce == prompts <= 1

\* C9: for every u in 0..100, well-formed output embedding u parses to
\* exactly u whatever the whitespace around the number and the case of the
\* tag; <gpu_util>   82 %  </gpu_util> publishes Alert.
C9_ParseWellFormed ==
    fnResult # <<>>
    => /\ fnResult[1].path = "Ok"
       /\ fnResult[1].util = fnArgs.u
       /\ (fnArgs.u > HIGH_UTIL_THRESHOLD => ColorClass(image) = "Alert")

\* C10: for every baseInterval >= 1 and all utilizations in 0..100, a call
\* of nextDelay without error returns d with 1 <= d <= 2 * baseInterval,
\* adaptive mode on or off.
C10_DelayBounded ==
    (fnResult # <<>> /\ ~fnArgs.has_error)
    => (1 <= fnResult[1] /\ fnResult[1] <= 2 * fnArgs.base)

\* C10's case: the fast branch on a base interval below 3, where base / 3
\* is 0
C10_Witness ==
    /\ fnResult # <<>> /\ ~fnArgs.has_error /\ adaptive_poll_enabled
    /\ Abs(fnArgs.util_pct - last_utilization) > fast_poll_threshold
    /\ fnArgs.base < 3
    /\ fnResult[1] = 1

\* C11: the utilization of every poll result is within 0..100, whatever the
\* remote output carries in the field, and every result classified as an
\* error carries utilization 0.
C11_UtilInRange ==
    cycle.path # "none"
    => /\ cycle.util \in 0..100
       /\ cycle.has_error => cycle.util = 0

\* C12: the text published to the tray, by the startup attempt, a poll cycle
\* or a manual Refresh, is never longer than 128 characters.
C12_TitleBounded == Len(title) <= TitleLimit

\* C13: when the process has finished, on any exit path, no connection is
\* live and none is being opened, whatever the poll thread was doing.
C13_ExitClosesHandle ==
    pc["main"] = "exited"
    => /\ ~Connected
       /\ \A t \in Threads : inflight[t] = "none" /\ ~InAttempt(t)

\* C14: a manual Refresh leaves the scheduler untouched: no step of the
\* Refresh callback changes lastUtilization or consecutiveErrors, computes
\* a delay, or moves the sleeping poll loop.
C14_RefreshLeavesScheduler ==
    [][(started /\ pc'["main"] # pc["main"] /\ pc'["main"] # "exited")
       => /\ UNCHANGED <<last_utilization, consecutive_errors, sleep_time, cycle>>
          /\ pc'["poll"] = pc["poll"]]_vars

\* C14's case: a Refresh has published 65% while the poll loop sleeps on
\* its own last cycle, which read 20%
C14_Witness ==
    /\ started /\ pc["main"] = "idle" /\ pc["poll"] = "sleep"
    /\ title = Parsed[D65].text /\ image = "red"
    /\ cycle.path = "Ok" /\ cycle.util = 20 /\ last_utilization = 20

\* C15: a manual Refresh publishes the color class a poll cycle would
\* publish for the same query result; a Refresh whose query failed
\* publishes Offline.
C15_RefreshPublishesLikePoll ==
    (fnResult # <<>> /\ fnArgs.site = "refresh")
    => ColorClass(image) =
         ColorClass(PollIcon(HasError(fnArgs.r.text, fnArgs.r.util), fnArgs.r.util))

\* C16: when ensureConnected fails fast with BackingOff it changes no
\* connection state: the handle, retryCount and the last-attempt timestamp
\* stay as they were, and no connect is started.
C16_BackingOffTouchesNothing ==
    [][\A t \in Threads :
          (GateStep(t) /\ (\/ GateCloses(sinceAttempt, connection_retry_count)
                           \/ pc'[t] \in {"sleep", "idle"}))
          => /\ pc'[t] \in {"sleep", "idle"}
             /\ UNCHANGED <<ssh_client, inflight, connection_retry_count, sinceAttempt>>]_vars

\* C16's case: the poll loop was turned away one second after a failed
\* attempt, and the second is still on the clock
C16_Witness ==
    /\ pc["poll"] = "sleep" /\ cycle.path = "BackingOff"
    /\ ssh_client = "None" /\ connection_retry_count = 1 /\ sinceAttempt = 1

\* C17: when command execution on a live connection raises a transport
\* exception, the query returns an error result with the handle closed and
\* cleared, and the next cycle of the loop that finds it cleared goes
\* through ensureConnected and its backoff gate.
C17_TransportErrorClearsHandle ==
    [][/\ (PollCycleEnds /\ cycle'.path = "TransportError")
          => /\ pc["poll"] = "exec"
             /\ ssh_client' = "None"
             /\ cycle'.util = 0
             /\ Contains(S_SshError, title')
       /\ (pc["poll"] = "sleep" /\ pc'["poll"] # "sleep" /\ ssh_client = "None")
          => pc'["poll"] = "gate"]_vars

\* C17's case: a cycle on a live connection ended in "SSH error: Error
\* reading banner" and left the handle cleared
C17_Witness ==
    /\ pc["poll"] = "sleep" /\ cycle.path = "TransportError"
    /\ title = S_SshError \o M_Banner /\ ssh_client = "None"

\* C18: after a poll cycle that ended in NoData (empty stdout on a live
\* connection) the next cycle's query goes through a reconnection attempt:
\* it does not run its command on the handle it finds.
C18_NoDataForcesReconnect ==
    [][(cycle.path = "NoData" /\ pc["poll"] \in {"sleep", "h2"})
       => pc'["poll"] # "exec"]_vars

\* C19: with adaptive mode on and no error, nextDelay is max(1, base / 3)
\* when the utilizations differ by more than 10, base * 2 when they differ
\* by less than 2, and base otherwise, the differences 10 and 2 included;
\* with adaptive mode off it is always base.
C19_StrictThresholds ==
    fnResult # <<>>
    => LET delta == Abs(fnArgs.util_pct - last_utilization) IN
       /\ ~adaptive_poll_enabled => fnResult[1] = fnArgs.base
       /\ (adaptive_poll_enabled /\ ~fnArgs.has_error)
          => fnResult[1] = IF delta > 10 THEN Max2(1, fnArgs.base \div 3)
                           ELSE IF delta < 2 THEN fnArgs.base * 2
                           ELSE fnArgs.base

\* C19's case: a difference of exactly 10 on a base interval of 4, where
\* the fast, the slow and the unchanged delay all differ
C19_Witness ==
    /\ fnResult # <<>> /\ adaptive_poll_enabled /\ ~fnArgs.has_error
    /\ Abs(fnArgs.util_pct - last_utilization) = 10
    /\ fnArgs.base = 4 /\ fnResult[1] = 4

\* C20: once every connection attempt and every query succeeds, the poll
\* loop, scheduled fairly and with time advancing, eventually makes a real
\* attempt and then sleeps on a non-error utilization with the connection
\* up and retryCount back at 0, whatever retryCount had accumulated; the
\* backoff window is never longer than backoffBase^5 seconds.
C20_RecoveryIsLive ==
    /\ [](Backoff(connection_retry_count) <= Pow(connection_backoff_base, 5))
    /\ <>(pc["poll"] = "connecting")
    /\ <>(/\ pc["poll"] = "sleep" /\ Connected
          /\ connection_retry_count = 0
          /\ cycle.path = "Ok" /\ ~cycle.has_error /\ ColorClass(image) # "Offline")

\* C20's case: the loop has recovered from MaxCount failed attempts in a
\* row, past the capped window
C20_Witness ==
    /\ pc["poll"] = "sleep" /\ Connected /\ connection_retry_count = 0
    /\ retryBefore = MaxCount /\ cycle.path = "Ok"
=============================================================================
